---- MODULE Spec2Model ----
(***************************************************************************)
(* Timestamped comparator bridge of rust-rocksdb (src/src/timestamp.rs)    *)
(* and the reference comparator U64Comparator with its 8-byte             *)
(* little-endian timestamp (src/tests/test_timestamp.rs).                 *)
(*                                                                         *)
(* Byte spans are sequences of naturals below ByteBase.  An Ordering is    *)
(* the integer it is cast to at the C boundary: Less = -1, Equal = 0,      *)
(* Greater = 1.  A Rust expression that may panic evaluates to a record    *)
(* with a panic flag.                                                      *)
(***************************************************************************)
EXTENDS Integers, Sequences, FiniteSets, TLC

VARIABLES
    keyA, keyB, keyC,      \* raw key spans the engine hands to the callbacks
    fullRes,               \* compare_callback outcomes, per pair of spans
    tsRes,                 \* compare_ts_callback outcome
    woRes,                 \* compare_without_ts_callback call record
    issued,                \* the caller's put and delete calls, in order
    batch, db, lastRead,   \* write batch, engine contents, last read result
    policies, configs, regLog, cbLog,   \* comparator policies and native configurations
    heap, ropts, nativeRead             \* byte buffers, read options, last native read

cmpVars == <<keyA, keyB, keyC, fullRes, tsRes, woRes>>
storeVars == <<issued, batch, db, lastRead>>
regVars == <<policies, configs, regLog, cbLog>>
roVars == <<heap, ropts, nativeRead>>
vars == <<cmpVars, storeVars, regVars, roVars>>
exceptCmp == <<storeVars, regVars, roVars>>
exceptStore == <<cmpVars, regVars, roVars>>
exceptReg == <<cmpVars, storeVars, roVars>>
exceptRo == <<cmpVars, storeVars, regVars>>

----------------------------------------------------------------------------
(* Bounds and program constants *)

MaxTs == 2

SIZE == 8

ByteBase == 256

Less == 0 - 1
Equal == 0
Greater == 1

----------------------------------------------------------------------------
(* Results of Rust expressions *)

OkOrd(o) == [panic |-> FALSE, ord |-> o]
PanicOrd == [panic |-> TRUE, ord |-> 0]
OkSlice(s) == [panic |-> FALSE, bytes |-> s]
PanicSlice == [panic |-> TRUE, bytes |-> <<>>]

\* Ordering::reverse
reverse(o) == 0 - o

\* Ord::cmp on integers (u64, usize, u8)
int_cmp(x, y) == IF x < y THEN Less ELSE IF x > y THEN Greater ELSE Equal

\* <[u8] as Ord>::cmp : bytewise lexicographic, a proper prefix sorts first
slice_cmp(a, b) ==
    LET n == IF Len(a) < Len(b) THEN Len(a) ELSE Len(b)
        diff == {i \in 1..n : a[i] # b[i]}
    IN  IF diff # {}
        THEN LET i == CHOOSE j \in diff : \A k \in diff : j <= k
             IN  int_cmp(a[i], b[i])
        ELSE int_cmp(Len(a), Len(b))

\* u64::to_le_bytes, least significant byte first, n bytes
RECURSIVE to_le_bytes(_, _)
to_le_bytes(v, n) ==
    IF n = 0 THEN <<>> ELSE <<v % ByteBase>> \o to_le_bytes(v \div ByteBase, n - 1)

\* u64::from_le_bytes
RECURSIVE from_le_bytes(_)
from_le_bytes(bz) ==
    IF bz = <<>> THEN 0 ELSE Head(bz) + ByteBase * from_le_bytes(Tail(bz))

\* impl From<u64> for U64Timestamp
U64Timestamp_from_u64(value) == to_le_bytes(value, SIZE)

\* impl From<&[u8]> for U64Timestamp : panics unless the slice is SIZE bytes
U64Timestamp_from_bytes(bytes) ==
    IF Len(bytes) # SIZE THEN PanicSlice ELSE OkSlice(bytes)

\* a plausible slip: timestamps ordered bytewise instead of as integers
U64Timestamp_cmp_bytewise(self, other) == slice_cmp(self, other)

\* impl Ord for U64Timestamp
U64Timestamp_cmp(self, other) == int_cmp(from_le_bytes(self), from_le_bytes(other))

\* &key[(key.len() - SIZE)..] : usize underflow or a bad range panics
extract_timestamp_from_user_key(key) ==
    IF Len(key) < SIZE THEN PanicSlice
    ELSE OkSlice(SubSeq(key, Len(key) - SIZE + 1, Len(key)))

\* &key[..(key.len() - SIZE)]
strip_timestamp_from_user_key(key) ==
    IF Len(key) < SIZE THEN PanicSlice
    ELSE OkSlice(SubSeq(key, 1, Len(key) - SIZE))

\* U64Comparator::compare_ts
U64Comparator_compare_ts(bz1, bz2) ==
    LET ts1 == U64Timestamp_from_bytes(bz1)
        ts2 == U64Timestamp_from_bytes(bz2)
    IN  IF ts1.panic \/ ts2.panic THEN PanicOrd
        ELSE OkOrd(U64Timestamp_cmp(ts1.bytes, ts2.bytes))

\* U64Comparator::compare_without_ts
U64Comparator_compare_without_ts(a, a_has_ts, b, b_has_ts) ==
    LET a1 == IF a_has_ts THEN strip_timestamp_from_user_key(a) ELSE OkSlice(a)
        b1 == IF b_has_ts THEN strip_timestamp_from_user_key(b) ELSE OkSlice(b)
    IN  IF a1.panic \/ b1.panic THEN PanicOrd
        ELSE OkOrd(slice_cmp(a1.bytes, b1.bytes))

\* a plausible slip: the newest-first reversal is dropped
U64Comparator_compare_no_reverse(a, b) ==
    LET ord == U64Comparator_compare_without_ts(a, TRUE, b, TRUE)
    IN  IF ord.panic \/ ord.ord # Equal THEN ord
        ELSE U64Comparator_compare_ts(extract_timestamp_from_user_key(a).bytes,
                                      extract_timestamp_from_user_key(b).bytes)

\* a plausible slip: greater-or-equal user keys all reported Greater
U64Comparator_compare_no_equal(a, b) ==
    LET ord == U64Comparator_compare_without_ts(a, TRUE, b, TRUE)
    IN  IF ord.panic \/ ord.ord # Equal THEN ord
        ELSE LET t == U64Comparator_compare_ts(extract_timestamp_from_user_key(a).bytes,
                                               extract_timestamp_from_user_key(b).bytes)
             IN  IF t.panic THEN t
                 ELSE OkOrd(IF t.ord = Greater THEN Less ELSE Greater)

\* U64Comparator::compare
U64Comparator_compare(a, b) ==
    LET ord == U64Comparator_compare_without_ts(a, TRUE, b, TRUE)
    IN  IF ord.panic \/ ord.ord # Equal THEN ord
        ELSE LET t == U64Comparator_compare_ts(extract_timestamp_from_user_key(a).bytes,
                                               extract_timestamp_from_user_key(b).bytes)
             IN  IF t.panic THEN t ELSE OkOrd(reverse(t.ord))

\* the key is long enough to carry a timestamp suffix
HasTs(key) == Len(key) >= SIZE

\* the key with its last SIZE bytes removed
Stripped(key) == SubSeq(key, 1, Len(key) - SIZE)

----------------------------------------------------------------------------
(* Inputs of the comparator: raw key spans *)

\* user keys without a timestamp; the last two themselves end in SIZE bytes
PlainPrefixes == {<<1>>, <<1, 2>>, <<2>>}
NestedPrefixes == {<<1>> \o U64Timestamp_from_u64(t) : t \in 1..2}
Prefixes == PlainPrefixes \cup NestedPrefixes

Timestamps == (1..MaxTs) \cup {ByteBase}

\* keys carrying a timestamp suffix
FullKeys == {p \o U64Timestamp_from_u64(t) : p \in Prefixes, t \in Timestamps}

\* spans the engine may hand over; the plain prefixes are shorter than SIZE
RawKeys == PlainPrefixes \cup FullKeys

\* c_uchar values of the has-timestamp flags
FlagBytes == {0, 1, 255}

Pairs == {"ab", "ba", "bc", "ac"}
PairFst(p) == IF p = "ab" \/ p = "ac" THEN keyA ELSE IF p = "ba" \/ p = "bc" THEN keyB ELSE keyC
PairSnd(p) == IF p = "ab" THEN keyB ELSE IF p = "ba" THEN keyA ELSE keyC

----------------------------------------------------------------------------
(* The trampolines: extern "C" functions called by the native engine *)

NotCalled == [boundary |-> "none", ret |-> 0]

\* a plausible slip: the callbacks declared with an unwinding ABI
\* (extern "C-unwind"), so a panic of the closure propagates into the
\* native caller's frames
extern_C_unwind_outcomes(r) ==
    IF r.panic
    THEN {[boundary |-> "unwind", ret |-> 0]}
    ELSE {[boundary |-> "return", ret |-> r.ord]}

\* What the native caller observes of an extern "C" callback whose closure
\* returned r.  No trampoline catches a panic and none substitutes an
\* ordering for it: a panic that reaches the end of an extern "C" function
\* aborts the process (SIGABRT, "panic in a function that cannot unwind").
extern_C_outcomes(r) ==
    IF r.panic
    THEN {[boundary |-> "abort", ret |-> 0]}
    ELSE {[boundary |-> "return", ret |-> r.ord]}

\* the span of trailing timestamp bytes the engine cuts from a key
native_ts_span(key) ==
    IF Len(key) < SIZE THEN key ELSE SubSeq(key, Len(key) - SIZE + 1, Len(key))

\* a plausible slip: the trampoline strips flagged keys before delegating,
\* and the closure strips them again
without_ts_trampoline_strips(a, a_has_ts_raw, b, b_has_ts_raw) ==
    LET a_has_ts == a_has_ts_raw # 0
        b_has_ts == b_has_ts_raw # 0
        a1 == IF a_has_ts THEN strip_timestamp_from_user_key(a).bytes ELSE a
        b1 == IF b_has_ts THEN strip_timestamp_from_user_key(b).bytes ELSE b
    IN  [closure_a |-> a1, closure_a_has_ts |-> a_has_ts,
         closure_b |-> b1, closure_b_has_ts |-> b_has_ts,
         result |-> U64Comparator_compare_without_ts(a1, a_has_ts, b1, b_has_ts)]

\* body of compare_without_ts_callback: the arguments the closure receives
\* and what it returns
without_ts_trampoline(a, a_has_ts_raw, b, b_has_ts_raw) ==
    LET a_has_ts == a_has_ts_raw # 0
        b_has_ts == b_has_ts_raw # 0
    IN  [closure_a |-> a, closure_a_has_ts |-> a_has_ts,
         closure_b |-> b, closure_b_has_ts |-> b_has_ts,
         result |-> U64Comparator_compare_without_ts(a, a_has_ts, b, b_has_ts)]

WoNotCalled ==
    [called |-> FALSE, a_has_ts_raw |-> 0, b_has_ts_raw |-> 0,
     closure_a |-> <<>>, closure_a_has_ts |-> FALSE,
     closure_b |-> <<>>, closure_b_has_ts |-> FALSE, out |-> NotCalled]

\* the process has been aborted by a panic leaving a callback
aborted ==
    \/ \E p \in Pairs : fullRes[p].boundary = "abort"
    \/ tsRes.boundary = "abort"
    \/ woRes.out.boundary = "abort"

\* ComparatorWithTs::compare_callback on the pair p of spans
compare_callback(p) ==
    /\ ~aborted
    /\ \E o \in extern_C_outcomes(U64Comparator_compare(PairFst(p), PairSnd(p))) :
           fullRes' = [fullRes EXCEPT ![p] = o]
    /\ UNCHANGED <<keyA, keyB, keyC, tsRes, woRes, exceptCmp>>

\* ComparatorWithTs::compare_ts_callback on the timestamp spans of keyA, keyB
compare_ts_callback ==
    /\ ~aborted
    /\ \E o \in extern_C_outcomes(
                  U64Comparator_compare_ts(native_ts_span(keyA), native_ts_span(keyB))) :
           tsRes' = o
    /\ UNCHANGED <<keyA, keyB, keyC, fullRes, woRes, exceptCmp>>

\* ComparatorWithTs::compare_without_ts_callback on keyA, keyB with flag bytes
compare_without_ts_callback(a_has_ts_raw, b_has_ts_raw) ==
    /\ ~aborted
    /\ LET call == without_ts_trampoline(keyA, a_has_ts_raw, keyB, b_has_ts_raw)
       IN  \E o \in extern_C_outcomes(call.result) :
               woRes' = [called |-> TRUE,
                         a_has_ts_raw |-> a_has_ts_raw, b_has_ts_raw |-> b_has_ts_raw,
                         closure_a |-> call.closure_a,
                         closure_a_has_ts |-> call.closure_a_has_ts,
                         closure_b |-> call.closure_b,
                         closure_b_has_ts |-> call.closure_b_has_ts,
                         out |-> o]
    /\ UNCHANGED <<keyA, keyB, keyC, fullRes, tsRes, exceptCmp>>

----------------------------------------------------------------------------
(* Timestamped write batch operations and the reads of the engine *)

MaxWrites == 2

StoreKeys == {<<1>>, <<1, 2>>}
StoreValues == {<<10>>, <<20, 21>>}
StoreTimestamps == {1, 2, ByteBase}

\* a plausible slip: the key's pointer and length are passed again for the value
put_record_key_as_value(key, ts, value) ==
    [op |-> "put", key |-> key, ts |-> ts, value |-> key]

\* the record rocksdb_writebatch_put_cf_with_ts receives from put_cf_with_ts:
\* key, timestamp and value as three independent byte spans
put_record(key, ts, value) ==
    [op |-> "put", key |-> key, ts |-> ts, value |-> value]

\* the record rocksdb_writebatch_delete_cf_with_ts receives from delete_cf_with_ts
delete_record(key, ts) ==
    [op |-> "delete", key |-> key, ts |-> ts, value |-> <<>>]

\* WriteBatch::put_cf_with_ts with the timestamp U64Timestamp::from(t)
put_cf_with_ts(key, t, value) ==
    /\ Len(batch) + Len(db) < MaxWrites
    /\ batch' = Append(batch, put_record(key, U64Timestamp_from_u64(t), value))
    /\ issued' = Append(issued, [op |-> "put", key |-> key, t |-> t, value |-> value])
    /\ UNCHANGED <<db, lastRead, exceptStore>>

\* WriteBatch::delete_cf_with_ts with the timestamp U64Timestamp::from(t)
delete_cf_with_ts(key, t) ==
    /\ Len(batch) + Len(db) < MaxWrites
    /\ batch' = Append(batch, delete_record(key, U64Timestamp_from_u64(t)))
    /\ issued' = Append(issued, [op |-> "delete", key |-> key, t |-> t, value |-> <<>>])
    /\ UNCHANGED <<db, lastRead, exceptStore>>

\* first position of the sorted entries d whose key is not Less than k
\* under the registered comparator
engine_seek(d, k) ==
    LET idx == {i \in 1..Len(d) : U64Comparator_compare(d[i].ukey, k).ord # Less}
    IN  IF idx = {} THEN Len(d) + 1 ELSE CHOOSE i \in idx : \A j \in idx : i <= j

\* a record enters the sorted entries as key ++ timestamp, ahead of the
\* entries that compare Equal to it (greater sequence number first)
engine_insert(d, r) ==
    LET e == [ukey |-> r.key \o r.ts, seq |-> Len(d) + 1, op |-> r.op, value |-> r.value]
        pos == engine_seek(d, e.ukey)
    IN  SubSeq(d, 1, pos - 1) \o <<e>> \o SubSeq(d, pos, Len(d))

\* the records of a submitted batch apply in the order appended
RECURSIVE engine_apply(_, _)
engine_apply(d, b) ==
    IF b = <<>> THEN d ELSE engine_apply(engine_insert(d, Head(b)), Tail(b))

\* point lookup of key at read timestamp ts: the first entry at or after
\* key ++ ts, if it is a version of the same user key
engine_get(d, key, ts) ==
    LET look == key \o ts
        i == engine_seek(d, look)
    IN  IF /\ i <= Len(d)
           /\ U64Comparator_compare_without_ts(d[i].ukey, TRUE, look, TRUE).ord = Equal
           /\ d[i].op = "put"
        THEN [found |-> TRUE, value |-> d[i].value]
        ELSE [found |-> FALSE, value |-> <<>>]

\* entry i is the version of its user key visible at read timestamp ts: its
\* timestamp is not newer than ts and no entry before it is a version of the
\* same user key that is not newer than ts
engine_visible(d, i, ts) ==
    /\ U64Comparator_compare_ts(native_ts_span(d[i].ukey), ts).ord # Greater
    /\ \A j \in 1..(i - 1) :
           \/ U64Comparator_compare_without_ts(d[j].ukey, TRUE, d[i].ukey, TRUE).ord # Equal
           \/ U64Comparator_compare_ts(native_ts_span(d[j].ukey), ts).ord = Greater

\* forward iteration from the start at read timestamp ts: the visible
\* version of every user key that is not a tombstone, key without timestamp
RECURSIVE engine_iterate(_, _, _)
engine_iterate(d, i, ts) ==
    IF i > Len(d) THEN <<>>
    ELSE (IF engine_visible(d, i, ts) /\ d[i].op = "put"
          THEN <<[key |-> Stripped(d[i].ukey), value |-> d[i].value]>>
          ELSE <<>>) \o engine_iterate(d, i + 1, ts)

NoRead == [op |-> "none", key |-> <<>>, t |-> 0, found |-> FALSE, value |-> <<>>, items |-> <<>>]

\* DB::write(batch)
db_write ==
    /\ batch # <<>>
    /\ db' = engine_apply(db, batch)
    /\ batch' = <<>>
    /\ lastRead' = NoRead
    /\ UNCHANGED <<issued, exceptStore>>

\* DB::get_cf_opt with ReadOptions::set_timestamp(U64Timestamp::from(t))
get_cf_opt(key, t) ==
    /\ LET r == engine_get(db, key, U64Timestamp_from_u64(t))
       IN  lastRead' = [op |-> "get", key |-> key, t |-> t,
                        found |-> r.found, value |-> r.value, items |-> <<>>]
    /\ UNCHANGED <<issued, batch, db, exceptStore>>

\* DB::iterator_cf_opt(cf, opts, IteratorMode::Start), collected
iterator_cf_opt(t) ==
    /\ lastRead' = [op |-> "iter", key |-> <<>>, t |-> t, found |-> FALSE, value |-> <<>>,
                    items |-> engine_iterate(db, 1, U64Timestamp_from_u64(t))]
    /\ UNCHANGED <<issued, batch, db, exceptStore>>

----------------------------------------------------------------------------
(* Registration of a comparator policy and its release by the native side *)

MaxRegs == 3

\* the Options objects of the caller
OptionIds == {1, 2}

\* comparator names as bytes; the last holds an interior NUL
Names == {<<97>>, <<98, 99>>, <<97, 0, 98>>}

\* CStrLike::into_c_string for &str: CString::new fails on an interior NUL
into_c_string(name) ==
    IF \E i \in 1..Len(name) : name[i] = 0
    THEN [panic |-> TRUE, bytes |-> <<>>]
    ELSE [panic |-> FALSE, bytes |-> name \o <<0>>]

NoReg == [calls |-> 0, opt |-> 0, name |-> <<>>, outcome |-> "none", policy |-> 0]
NoCallback == [fn |-> "none", policy |-> 0, live |-> FALSE, name |-> <<>>]

\* a plausible slip: the policy is boxed and leaked to a raw pointer before
\* the name is converted, so a failing call leaves it allocated
set_comparator_with_ts_alloc_first(opt, name) ==
    /\ regLog.calls < MaxRegs
    /\ LET c == into_c_string(name)
           id == Len(policies) + 1
       IN  /\ policies' = Append(policies,
                    [name |-> c.bytes, live |-> TRUE, destroyed |-> 0, opt |-> opt])
           /\ IF c.panic
              THEN /\ configs' = configs
                   /\ regLog' = [calls |-> regLog.calls + 1, opt |-> opt, name |-> name,
                                 outcome |-> "panic", policy |-> 0]
              ELSE /\ configs' = [configs EXCEPT ![opt].comparator = id]
                   /\ regLog' = [calls |-> regLog.calls + 1, opt |-> opt, name |-> name,
                                 outcome |-> "ok", policy |-> id]
    /\ UNCHANGED <<cbLog, exceptReg>>

\* Options::set_comparator_with_ts.  The name is converted first and a
\* failure panics before anything is allocated; otherwise the boxed policy
\* goes to rocksdb_comparator_with_ts_create as a raw pointer and
\* rocksdb_options_set_comparator overwrites the configuration's comparator.
\* The comparator installed before is not destroyed, and the state of the
\* configuration is not looked at: the call also succeeds after a close.
set_comparator_with_ts(opt, name) ==
    /\ regLog.calls < MaxRegs
    /\ LET c == into_c_string(name)
           id == Len(policies) + 1
       IN  IF c.panic
           THEN /\ UNCHANGED <<policies, configs>>
                /\ regLog' = [calls |-> regLog.calls + 1, opt |-> opt, name |-> name,
                              outcome |-> "panic", policy |-> 0]
           ELSE /\ policies' = Append(policies,
                        [name |-> c.bytes, live |-> TRUE, destroyed |-> 0, opt |-> opt])
                /\ configs' = [configs EXCEPT ![opt].comparator = id]
                /\ regLog' = [calls |-> regLog.calls + 1, opt |-> opt, name |-> name,
                              outcome |-> "ok", policy |-> id]
    /\ UNCHANGED <<cbLog, exceptReg>>

\* ComparatorWithTs::destructor_callback: the box is rebuilt from the raw
\* pointer and dropped
destructor_callback(ps, raw_cb) ==
    [ps EXCEPT ![raw_cb].live = FALSE, ![raw_cb].destroyed = @ + 1]

\* ComparatorWithTs::name_callback, called by the engine on the comparator
\* its configuration references
name_callback(opt) ==
    /\ ~configs[opt].closed
    /\ configs[opt].comparator # 0
    /\ LET raw_cb == configs[opt].comparator
       IN  cbLog' = [fn |-> "name", policy |-> raw_cb, live |-> policies[raw_cb].live,
                     name |-> policies[raw_cb].name]
    /\ UNCHANGED <<policies, configs, regLog, exceptReg>>

\* the native side is done with a configuration (database or column family
\* close): it destroys the comparator the configuration references
native_close(opt) ==
    /\ ~configs[opt].closed
    /\ configs' = [configs EXCEPT ![opt].closed = TRUE]
    /\ policies' = IF configs[opt].comparator = 0 THEN policies
                   ELSE destructor_callback(policies, configs[opt].comparator)
    /\ UNCHANGED <<regLog, cbLog, exceptReg>>

----------------------------------------------------------------------------
(* The read timestamp owned by a read context *)

MaxSets == 3

\* timestamps a caller attaches: encoded, empty and of a wrong length
ReadTimestamps == {U64Timestamp_from_u64(1), U64Timestamp_from_u64(ByteBase), <<>>, <<7>>}

NoRopts == [alive |-> TRUE, timestamp |-> 0, native_ptr |-> 0, native_len |-> 0,
            sets |-> 0, last |-> <<>>]
NoNativeRead == [done |-> FALSE, valid |-> FALSE, bytes |-> <<>>, expected |-> <<>>]

\* the buffers h with buffer p freed (p = 0: nothing to free)
free(h, p) == IF p = 0 THEN h ELSE [h EXCEPT ![p].live = FALSE]

\* a plausible slip: no copy is made and the native side is handed a pointer
\* into the caller's bytes, which die when the call returns
set_timestamp_borrowed(ts) ==
    /\ ropts.alive
    /\ ropts.sets < MaxSets
    /\ LET arg == Len(heap) + 1
           own == Len(heap) + 2
       IN  /\ heap' = free(free(heap, ropts.timestamp)
                               \o <<[bytes |-> ts, live |-> TRUE],
                                    [bytes |-> ts, live |-> TRUE]>>, arg)
           /\ ropts' = [ropts EXCEPT !.timestamp = own, !.native_ptr = arg,
                                     !.native_len = Len(ts),
                                     !.sets = @ + 1, !.last = ts]
    /\ UNCHANGED <<nativeRead, exceptRo>>

\* ReadOptions::set_timestamp.  The caller's bytes (buffer arg) are copied
\* into a new buffer (own) that the context then owns, which drops the buffer
\* it owned before; the native read options get the copy's pointer and
\* length; the caller's bytes end with the call.
set_timestamp(ts) ==
    /\ ropts.alive
    /\ ropts.sets < MaxSets
    /\ LET arg == Len(heap) + 1
           own == Len(heap) + 2
       IN  /\ heap' = free(free(heap, ropts.timestamp)
                               \o <<[bytes |-> ts, live |-> TRUE],
                                    [bytes |-> ts, live |-> TRUE]>>, arg)
           /\ ropts' = [ropts EXCEPT !.timestamp = own, !.native_ptr = own,
                                     !.native_len = Len(ts),
                                     !.sets = @ + 1, !.last = ts]
    /\ UNCHANGED <<nativeRead, exceptRo>>

\* a read call using the context: the engine reads native_len bytes at
\* native_ptr (nothing when no timestamp was set)
native_read ==
    /\ ropts.alive
    /\ LET p == ropts.native_ptr
           ok == p = 0 \/ heap[p].live
       IN  nativeRead' = [done |-> TRUE, valid |-> ok,
                          bytes |-> IF p # 0 /\ ok
                                    THEN SubSeq(heap[p].bytes, 1, ropts.native_len)
                                    ELSE <<>>,
                          expected |-> ropts.last]
    /\ UNCHANGED <<heap, ropts, exceptRo>>

\* the read context is dropped: its buffer and the native read options go
drop_read_options ==
    /\ ropts.alive
    /\ heap' = free(heap, ropts.timestamp)
    /\ ropts' = [ropts EXCEPT !.alive = FALSE, !.timestamp = 0, !.native_ptr = 0,
                              !.native_len = 0]
    /\ UNCHANGED <<nativeRead, exceptRo>>

----------------------------------------------------------------------------
(* Initial states of the four parts of the program *)

InitCmp ==
    /\ fullRes = [p \in Pairs |-> NotCalled]
    /\ tsRes = NotCalled
    /\ woRes = WoNotCalled

NoKeys == keyA = <<>> /\ keyB = <<>> /\ keyC = <<>>

InitStore ==
    /\ issued = <<>>
    /\ batch = <<>>
    /\ db = <<>>
    /\ lastRead = NoRead

InitReg ==
    /\ policies = <<>>
    /\ configs = [o \in OptionIds |-> [comparator |-> 0, closed |-> FALSE]]
    /\ regLog = NoReg
    /\ cbLog = NoCallback

InitRo ==
    /\ heap = <<>>
    /\ ropts = NoRopts
    /\ nativeRead = NoNativeRead

----------------------------------------------------------------------------
(* The comparator trampolines called on one pair of spans *)

InitPair ==
    /\ keyA \in RawKeys /\ keyB \in RawKeys /\ keyC = <<>>
    /\ InitCmp /\ InitStore /\ InitReg /\ InitRo

NextPair ==
    \/ compare_callback("ab")
    \/ compare_ts_callback
    \/ \E fa \in FlagBytes, fb \in FlagBytes : compare_without_ts_callback(fa, fb)

SpecPair == InitPair /\ [][NextPair]_vars

(* The full comparison called on the pairs of three spans *)

InitOrder ==
    /\ keyA \in RawKeys /\ keyB \in RawKeys /\ keyC \in RawKeys
    /\ InitCmp /\ InitStore /\ InitReg /\ InitRo

NextOrder == \E p \in Pairs : compare_callback(p)

SpecOrder == InitOrder /\ [][NextOrder]_vars

----------------------------------------------------------------------------
(* Claims about the comparator *)

\* C3 as stated: the full comparison follows the without-ts closure applied,
\* with both flags set, to the already stripped keys, and when that is Equal
\* it is the reversed timestamp comparison.
C3_ConsistencyOnStrippedKeys ==
    (HasTs(keyA) /\ HasTs(keyB) /\ fullRes["ab"].boundary = "return") =>
        LET w == U64Comparator_compare_without_ts(Stripped(keyA), TRUE, Stripped(keyB), TRUE)
            t == U64Comparator_compare_ts(native_ts_span(keyA), native_ts_span(keyB))
        IN  ~w.panic =>
                /\ w.ord # Equal => fullRes["ab"].ret = w.ord
                /\ w.ord = Equal => fullRes["ab"].ret = reverse(t.ord)

\* C3 amended: for keys that carry a timestamp suffix, the full comparison
\* equals the without-ts comparison of the unstripped keys with both flags
\* set whenever that is not Equal, and otherwise equals the reversed
\* timestamp comparison of the two suffixes.
C3_Consistency ==
    ( /\ HasTs(keyA) /\ HasTs(keyB)
      /\ fullRes["ab"].boundary # "none"
      /\ tsRes.boundary # "none"
      /\ woRes.called /\ woRes.a_has_ts_raw # 0 /\ woRes.b_has_ts_raw # 0 ) =>
        /\ fullRes["ab"].boundary = "return"
        /\ tsRes.boundary = "return"
        /\ woRes.out.boundary = "return"
        /\ woRes.out.ret # Equal => fullRes["ab"].ret = woRes.out.ret
        /\ woRes.out.ret = Equal => fullRes["ab"].ret = reverse(tsRes.ret)

C3_Witness ==
    /\ HasTs(keyA) /\ HasTs(keyB)
    /\ fullRes["ab"].boundary = "return"
    /\ tsRes.boundary = "return"
    /\ woRes.called /\ woRes.a_has_ts_raw # 0 /\ woRes.b_has_ts_raw # 0
    /\ woRes.out.ret = Equal
    /\ tsRes.ret = Less
    /\ fullRes["ab"].ret = Greater

\* C4: for a prefix P and timestamps t1 < t2 as integers, the full comparison
\* of P ++ le(t2) with P ++ le(t1) is Less: the newer version sorts first.
C4_NewestFirst ==
    \A p \in Prefixes, t1 \in Timestamps, t2 \in Timestamps :
        ( /\ t1 < t2
          /\ keyA = p \o U64Timestamp_from_u64(t2)
          /\ keyB = p \o U64Timestamp_from_u64(t1)
          /\ fullRes["ab"].boundary # "none" ) =>
            fullRes["ab"] = [boundary |-> "return", ret |-> Less]

\* t1 = 2 and t2 = ByteBase: the bytewise order of the suffixes is the
\* opposite of the integer order
C4_Witness ==
    /\ keyA = <<1>> \o U64Timestamp_from_u64(ByteBase)
    /\ keyB = <<1>> \o U64Timestamp_from_u64(2)
    /\ fullRes["ab"].boundary = "return"

\* C5: on keys that carry a timestamp suffix the full comparison is
\* antisymmetric (compare(a,b) is the reverse of compare(b,a), Equal only for
\* identical keys) and transitive.
C5_TotalOrder ==
    (HasTs(keyA) /\ HasTs(keyB) /\ HasTs(keyC)) =>
        /\ (fullRes["ab"].boundary # "none" /\ fullRes["ba"].boundary # "none") =>
               /\ fullRes["ab"].boundary = "return"
               /\ fullRes["ba"].boundary = "return"
               /\ fullRes["ab"].ret = reverse(fullRes["ba"].ret)
        /\ (fullRes["ab"].boundary # "none" /\ fullRes["ab"].ret = Equal) => keyA = keyB
        /\ ( /\ fullRes["ab"].boundary # "none" /\ fullRes["ab"].ret = Less
             /\ fullRes["bc"].boundary # "none" /\ fullRes["bc"].ret = Less
             /\ fullRes["ac"].boundary # "none" ) =>
               fullRes["ac"].ret = Less

\* three versions of one user key, and the reverse call made as well
C5_Witness ==
    /\ HasTs(keyA) /\ HasTs(keyB) /\ HasTs(keyC)
    /\ Stripped(keyA) = Stripped(keyB) /\ Stripped(keyB) = Stripped(keyC)
    /\ fullRes["ab"] = [boundary |-> "return", ret |-> Less]
    /\ fullRes["bc"] = [boundary |-> "return", ret |-> Less]
    /\ fullRes["ac"] = [boundary |-> "return", ret |-> Less]
    /\ fullRes["ba"] = [boundary |-> "return", ret |-> Greater]

\* C6: a panic of a comparison closure never unwinds out of a callback: every
\* callback that was entered either returned an ordering to the native caller
\* or ended in a process abort, and a closure that panicked (a key shorter
\* than a timestamp) ended in the abort, never in a returned ordering.
C6_NoUnwindAcrossBoundary ==
    /\ \A p \in Pairs :
         /\ fullRes[p].boundary \in {"none", "return", "abort"}
         /\ fullRes[p].boundary = "return" => fullRes[p].ret \in {Less, Equal, Greater}
         /\ (fullRes[p].boundary # "none"
                /\ U64Comparator_compare(PairFst(p), PairSnd(p)).panic)
              => fullRes[p].boundary = "abort"
    /\ tsRes.boundary \in {"none", "return", "abort"}
    /\ (tsRes.boundary # "none"
           /\ U64Comparator_compare_ts(native_ts_span(keyA), native_ts_span(keyB)).panic)
         => tsRes.boundary = "abort"
    /\ woRes.out.boundary \in {"none", "return", "abort"}
    /\ (woRes.called
           /\ U64Comparator_compare_without_ts(woRes.closure_a, woRes.closure_a_has_ts,
                                               woRes.closure_b, woRes.closure_b_has_ts).panic)
         => woRes.out.boundary = "abort"

\* a closure panicked inside compare_callback and the process was aborted
C6_Witness ==
    \E p \in Pairs :
        /\ U64Comparator_compare(PairFst(p), PairSnd(p)).panic
        /\ fullRes[p].boundary = "abort"

\* C10 as stated: the entry point hands the closure the flagged keys with
\* their timestamp suffix already stripped.
C10_EntryPointStrips ==
    woRes.called =>
        /\ woRes.closure_a =
               IF woRes.a_has_ts_raw # 0 /\ HasTs(keyA) THEN Stripped(keyA) ELSE keyA
        /\ woRes.closure_b =
               IF woRes.b_has_ts_raw # 0 /\ HasTs(keyB) THEN Stripped(keyB) ELSE keyB

\* C10 amended: the entry point forwards both spans unchanged, with each flag
\* byte turned into a boolean (non-zero is true); the closure strips; the call
\* returns -1, 0 or 1, the bytewise order of the two keys with the suffix
\* removed exactly once from each flagged key and not at all from the others.
C10_StripsOncePerFlag ==
    woRes.called =>
        /\ woRes.closure_a = keyA
        /\ woRes.closure_b = keyB
        /\ woRes.closure_a_has_ts = (woRes.a_has_ts_raw # 0)
        /\ woRes.closure_b_has_ts = (woRes.b_has_ts_raw # 0)
        /\ ( /\ woRes.a_has_ts_raw # 0 => HasTs(keyA)
             /\ woRes.b_has_ts_raw # 0 => HasTs(keyB) ) =>
               /\ woRes.out.boundary = "return"
               /\ woRes.out.ret \in {Less, Equal, Greater}
               /\ woRes.out.ret =
                      slice_cmp(IF woRes.a_has_ts_raw # 0 THEN Stripped(keyA) ELSE keyA,
                                IF woRes.b_has_ts_raw # 0 THEN Stripped(keyB) ELSE keyB)

\* flag bytes 255 and 0: keyA, which ends in two timestamps, loses one of
\* them and then equals the unflagged keyB
C10_Witness ==
    /\ woRes.called
    /\ woRes.a_has_ts_raw = 255 /\ woRes.b_has_ts_raw = 0
    /\ Len(keyA) >= SIZE + SIZE
    /\ keyB = Stripped(keyA)
    /\ woRes.out = [boundary |-> "return", ret |-> Equal]

----------------------------------------------------------------------------
(* Writes submitted in batches, point reads and scans at a read timestamp *)

InitWrites == NoKeys /\ InitCmp /\ InitStore /\ InitReg /\ InitRo

NextWrites ==
    \/ \E k \in StoreKeys, t \in StoreTimestamps, v \in StoreValues : put_cf_with_ts(k, t, v)
    \/ \E k \in StoreKeys, t \in StoreTimestamps : delete_cf_with_ts(k, t)
    \/ db_write
    \/ \E k \in StoreKeys, t \in StoreTimestamps : get_cf_opt(k, t)
    \/ \E t \in StoreTimestamps : iterator_cf_opt(t)

SpecWrites == InitWrites /\ [][NextWrites]_vars

\* the caller's writes on user key k that were submitted (batches are
\* submitted in the order of their calls), and their timestamps
WritesOn(k) == {i \in 1..Len(db) : issued[i].key = k}
TsOf(i) == issued[i].t

\* write i is the newest write on its key at or below timestamp t: no other
\* write on the key lies after it and at or below t
NewestAtOrBelow(i, t) ==
    /\ TsOf(i) <= t
    /\ \A j \in WritesOn(issued[i].key) :
           \/ TsOf(j) > t
           \/ TsOf(j) < TsOf(i)
           \/ (TsOf(j) = TsOf(i) /\ j <= i)

ItemsOf(k) == {n \in 1..Len(lastRead.items) : lastRead.items[n].key = k}

\* C1: a get at read timestamp T returns exactly the value V1 of a put at
\* T1 <= T when no later write on the key lies at or below T, and reports a
\* key with no write at or below T absent.
C1_RoundTrip ==
    lastRead.op = "get" =>
        /\ \A i \in WritesOn(lastRead.key) :
               (issued[i].op = "put" /\ NewestAtOrBelow(i, lastRead.t)) =>
                   (lastRead.found /\ lastRead.value = issued[i].value)
        /\ (\A i \in WritesOn(lastRead.key) : TsOf(i) > lastRead.t) => ~lastRead.found

\* a put at 1, a later write on the key at ByteBase, and a get at 2 in between
C1_Witness ==
    /\ lastRead.op = "get" /\ lastRead.t = 2 /\ lastRead.found
    /\ \E i \in WritesOn(lastRead.key) : issued[i].op = "put" /\ TsOf(i) = 1
    /\ \E j \in WritesOn(lastRead.key) : TsOf(j) = ByteBase

\* C2: after a delete of K at T2, a read at T >= T2 with no later put on K at
\* or below T sees K absent, by get and by forward iteration, and a read at
\* T < T2 still sees the value written before the delete.
C2_Tombstone ==
    \A k \in StoreKeys :
    \A d \in WritesOn(k) :
        (issued[d].op = "delete" /\ lastRead.op # "none"
            /\ (lastRead.op = "get" => lastRead.key = k)) =>
            /\ NewestAtOrBelow(d, lastRead.t) =>
                   /\ lastRead.op = "get" => ~lastRead.found
                   /\ lastRead.op = "iter" => ItemsOf(k) = {}
            /\ \A i \in WritesOn(k) :
                   ( /\ lastRead.t < TsOf(d)
                     /\ issued[i].op = "put"
                     /\ NewestAtOrBelow(i, lastRead.t) ) =>
                       /\ lastRead.op = "get" =>
                              (lastRead.found /\ lastRead.value = issued[i].value)
                       /\ lastRead.op = "iter" =>
                              \E n \in ItemsOf(k) :
                                  /\ lastRead.items[n].value = issued[i].value
                                  /\ ItemsOf(k) = {n}

\* a put at 1 and a delete at 2 on one key, scanned at ByteBase: the key is gone
C2_Witness ==
    /\ lastRead.op = "iter" /\ lastRead.t = ByteBase
    /\ \E k \in StoreKeys :
           /\ \E i \in WritesOn(k) : issued[i].op = "put" /\ TsOf(i) = 1
           /\ \E d \in WritesOn(k) : issued[d].op = "delete" /\ TsOf(d) = 2
           /\ ItemsOf(k) = {}

----------------------------------------------------------------------------
(* Registrations on two configurations, callbacks and closes *)

InitReleases == NoKeys /\ InitCmp /\ InitStore /\ InitReg /\ InitRo

NextReleases ==
    \/ \E o \in OptionIds, n \in Names : set_comparator_with_ts(o, n)
    \/ \E o \in OptionIds : name_callback(o)
    \/ \E o \in OptionIds : native_close(o)

SpecReleases == InitReleases /\ [][NextReleases]_vars

PolicyIds == 1..Len(policies)

\* C7: every policy a registration allocated is released through
\* destructor_callback exactly once when the native side has finished with
\* its configuration, never twice, and no entry point runs on a released
\* policy; a policy replaced by a second registration included.
C7_ExactlyOnceRelease ==
    /\ \A id \in PolicyIds : policies[id].destroyed <= 1
    /\ \A id \in PolicyIds :
           configs[policies[id].opt].closed => policies[id].destroyed = 1
    /\ cbLog.fn # "none" => cbLog.live

\* C9: a registration either makes the configuration reference the newly
\* created policy, now held by the native side, and touches nothing else, or
\* it fails and leaves policies and configurations as they were; a name with
\* an interior NUL fails.
C9_RegistrationAtomic ==
    [][ regLog'.calls # regLog.calls =>
          LET o == regLog'.opt
              new == Len(policies) + 1
          IN  /\ regLog'.outcome \in {"ok", "panic"}
              /\ (\E i \in 1..Len(regLog'.name) : regLog'.name[i] = 0) =>
                     regLog'.outcome = "panic"
              /\ regLog'.outcome = "ok" =>
                     /\ Len(policies') = new
                     /\ SubSeq(policies', 1, Len(policies)) = policies
                     /\ policies'[new].live /\ policies'[new].destroyed = 0
                     /\ policies'[new].name = regLog'.name \o <<0>>
                     /\ configs'[o] = [configs[o] EXCEPT !.comparator = new]
                     /\ \A o2 \in OptionIds \ {o} : configs'[o2] = configs[o2]
              /\ regLog'.outcome = "panic" =>
                     /\ policies' = policies
                     /\ configs' = configs ]_vars

\* a registration that failed on a configuration holding an earlier comparator
C9_Witness ==
    /\ regLog.outcome = "panic"
    /\ regLog.calls >= 2
    /\ configs[regLog.opt].comparator # 0
    /\ Len(policies) = 1

----------------------------------------------------------------------------
(* One read context: timestamps attached, reads, drop *)

InitReads == NoKeys /\ InitCmp /\ InitStore /\ InitReg /\ InitRo

NextReads ==
    \/ \E ts \in ReadTimestamps : set_timestamp(ts)
    \/ native_read
    \/ drop_read_options

SpecReads == InitReads /\ [][NextReads]_vars

\* C8: while the context lives, after any number of set_timestamp calls the
\* native (pointer, length) is the buffer the context owns, which is live and
\* holds the bytes of the last call; every read through the context finds
\* those bytes.
C8_ReadTimestampValid ==
    /\ (ropts.alive /\ ropts.sets > 0) =>
           /\ ropts.native_ptr = ropts.timestamp
           /\ ropts.native_ptr \in 1..Len(heap)
           /\ heap[ropts.native_ptr].live
           /\ heap[ropts.native_ptr].bytes = ropts.last
           /\ ropts.native_len = Len(ropts.last)
    /\ nativeRead.done => (nativeRead.valid /\ nativeRead.bytes = nativeRead.expected)

\* two calls with different bytes, the first buffer freed, then a read
C8_Witness ==
    /\ ropts.alive /\ ropts.sets = 2
    /\ nativeRead.done /\ nativeRead.bytes = ropts.last
    /\ Len(ropts.last) = SIZE
    /\ \E p \in 1..Len(heap) : ~heap[p].live /\ heap[p].bytes # ropts.last

====
